---- MODULE Spec2Model ----
(***************************************************************************)
(* A model of csvimporter.py: the CsvImporter orchestrator, the Csv source *)
(* reader, the Table schema prober and the Recordset column reconciler and *)
(* batch INSERT builder, driven against a DB-API connection that records   *)
(* what it is asked to do.                                                 *)
(*                                                                         *)
(* Python values are represented as follows.  A str is a TLA+ string.      *)
(* None (as a cell value) is the marker string None, the bool False that   *)
(* Recordset.names uses for a masked column is the marker string Absent,   *)
(* and the bool False that Recordset.type_codes uses for an unresolved     *)
(* type code is the integer 0 (in Python False == 0).  A list is a         *)
(* sequence.  An SQL statement is kept as the record of its parts (table,  *)
(* column list, value groups) instead of the joined text; the text of      *)
(* every rendered value is kept as the string that _escape returns.        *)
(***************************************************************************)
EXTENDS Integers, Sequences, FiniteSets, TLC

(* ------------------------------ bounds -------------------------------- *)
MaxReads == 1
MaxConfigs == 2
MaxAdds == 2
MaxRuns == 2
MaxQueries == 1
MaxNameQueries == 2
BigRows == 151

(* ------------------------- program constants -------------------------- *)
MULTIPLE_INSERT_CHUNK_SIZE == 75
TYPE_CODE_CHAR == 1
TYPE_CODE_INT == 3
TYPE_CODE_NUMERIC == 5
TYPE_CODE_DATETIME == 4
ESCAPES == {1, 4}

None == "<None>"
Absent == "<False>"
NoTypeCode == 0

Min(a, b) == IF a <= b THEN a ELSE b

\* Python truthiness of an entry of the names list (a str, or False).
Truthy(name) == name # Absent /\ name # ""

(* ------------------------------ inputs -------------------------------- *)
\* The files on disk, each as the list of lists csv.reader parses it into.
BigLine(i) == <<ToString(i), IF i % 2 = 0 THEN "" ELSE "z">>

Files ==
  [f \in {"hdr.csv", "plain.csv", "big.csv", "empty.csv"} |->
     CASE f = "hdr.csv"   -> << <<"a", "b">>, <<"k1", "2">>, <<"", "4">>, <<"k3", "">> >>
       [] f = "plain.csv" -> << <<"p1", "7", "d1">>, <<"", "8", "">> >>
       [] f = "big.csv"   -> << <<"a", "b">> >> \o [i \in 1..BigRows |-> BigLine(i)]
       [] f = "empty.csv" -> << >> ]

\* cursor.description of "SELECT * FROM <table> WHERE 1=0", reduced to the
\* two keys the program reads (name, type_code).
Tables ==
  [t \in {"t"} |->
     << [name |-> "a", type_code |-> TYPE_CODE_CHAR],
        [name |-> "b", type_code |-> TYPE_CODE_INT],
        [name |-> "x", type_code |-> TYPE_CODE_DATETIME] >>]

\* The mapping argument: None, or a dict.
NoMapping == [is_none |-> TRUE, map |-> << >>]
Dict(m) == [is_none |-> FALSE, map |-> m]
\* "if mapping": a dict is truthy iff it is not empty.
MappingTruthy(m) == ~m.is_none /\ DOMAIN m.map # {}

\* The arguments of read_csv the model draws from (skiprows 0 also stands for
\* the default None: both are falsy).
ReadArg(file, header, mapping, skiprows) ==
  [file |-> file, table |-> "t", header |-> header, mapping |-> mapping,
   skiprows |-> skiprows]

ReadCsvArgs ==
  { ReadArg("hdr.csv", TRUE, NoMapping, 0),
    ReadArg("hdr.csv", TRUE, NoMapping, 1),
    ReadArg("hdr.csv", TRUE, Dict("a" :> "x"), 0),
    ReadArg("hdr.csv", TRUE, Dict("a" :> "x" @@ "b" :> "y"), 0),
    ReadArg("plain.csv", FALSE, NoMapping, 0),
    ReadArg("plain.csv", FALSE, Dict(<< >>), 1),
    ReadArg("plain.csv", FALSE, Dict("a" :> "x"), 0),
    ReadArg("big.csv", TRUE, Dict("a" :> "x" @@ "b" :> "y"), 0),
    ReadArg("empty.csv", FALSE, NoMapping, 0),
    ReadArg("empty.csv", TRUE, NoMapping, 0) }

\* The arguments of add_column the model draws from.
AddColumnArgs ==
  { [option |-> "f", name |-> "b", type_code |-> TYPE_CODE_NUMERIC, value |-> "v"],
    [option |-> "f", name |-> "n", type_code |-> TYPE_CODE_CHAR, value |-> "w"],
    [option |-> "f", name |-> "n", type_code |-> TYPE_CODE_DATETIME, value |-> None],
    [option |-> "f", name |-> "", type_code |-> TYPE_CODE_CHAR, value |-> "v"],
    [option |-> "x", name |-> "n", type_code |-> TYPE_CODE_INT, value |-> "w"] }

\* The chunk sizes build_insert_sql is called with directly.
ChunkSizes == {2, 100}

(* ----------------------------- Csv ------------------------------------ *)
\* Csv.__init__: open the file, skip rows, split off the header.
\* next(reader) on an exhausted reader raises StopIteration, _rows[0] on an
\* empty list raises IndexError; both leave the constructor.
Csv_init(id, file, has_header, skiprows) ==
  LET lines == Files[file]
      skipErr == skiprows > Len(lines)
      rest == IF skipErr THEN << >> ELSE SubSeq(lines, skiprows + 1, Len(lines))
      hdrErr == has_header /\ Len(rest) = 0
      rows == IF has_header /\ ~hdrErr THEN Tail(rest) ELSE rest
  IN [ err |-> IF skipErr THEN "StopIteration"
                ELSE IF hdrErr THEN "IndexError" ELSE "",
       obj |-> [ id |-> id,
                 file |-> file,
                 has_header |-> has_header,
                 skiprows |-> skiprows,
                 header_is_none |-> ~has_header,
                 header |-> IF has_header /\ ~hdrErr THEN Head(rest) ELSE << >>,
                 rows |-> rows,
                 rowcount |-> Len(rows) ] ]

\* "elif self._csv.header": a list is truthy iff it is not None and not empty.
HeaderTruthy(c) == ~c.header_is_none /\ Len(c.header) > 0

NoCsv ==
  [ id |-> 0, file |-> "", has_header |-> FALSE, skiprows |-> 0,
    header_is_none |-> TRUE, header |-> << >>, rows |-> << >>, rowcount |-> 0 ]

\* The part of a Csv object the importer's own reference is read for.
CsvRef(c) == [id |-> c.id, file |-> c.file, rowcount |-> c.rowcount]

(* ----------------------------- Table ---------------------------------- *)
SelectStatement(table) ==
  [kind |-> "SELECT", table |-> table, cols |-> << >>, groups |-> << >>]

Table_init(table) == [name |-> table, description |-> Tables[table]]

NoTable == [name |-> "", description |-> << >>]

(* --------------------------- Recordset -------------------------------- *)
NoRecordset ==
  [ set |-> FALSE, csv |-> NoCsv, table |-> NoTable, mapping |-> NoMapping,
    masks |-> << >>, add_columns |-> << >> ]

\* A duplicate check that only compares neighbours.
HasDuplicate_Adjacent(rst_names) ==
  \E i \in 1..(Len(rst_names) - 1) :
     Truthy(rst_names[i]) /\ rst_names[i] = rst_names[i + 1]

\* rst_names.count(name) > 1 for some truthy name.
HasDuplicate(rst_names) ==
  \E i, j \in 1..Len(rst_names) :
     i # j /\ Truthy(rst_names[i]) /\ rst_names[i] = rst_names[j]

\* The list a call of names starts from.  With a header and no mapping it is
\* the Csv object's own header list, not a copy of it.
SourceNames(r) ==
  IF MappingTruthy(r.mapping)
    THEN [i \in 1..Min(Len(r.csv.header), Len(r.masks)) |->
            IF r.masks[i] THEN r.mapping.map[r.csv.header[i]] ELSE Absent]
  ELSE IF HeaderTruthy(r.csv) THEN r.csv.header
  ELSE [i \in 1..Len(r.table.description) |-> r.table.description[i].name]

\* TRUE iff rst_names is the header list itself, so that extend() changes it.
NamesAliasHeader(r) == ~MappingTruthy(r.mapping) /\ HeaderTruthy(r.csv)

\* Recordset.names.  names: the list returned; raised: the duplicate check
\* raised CsvImporterError instead; header: self._csv.header after the call.
Recordset_names(r) ==
  LET rst_names ==
        SourceNames(r) \o [i \in 1..Len(r.add_columns) |-> r.add_columns[i].name]
  IN [ names |-> rst_names,
       raised |-> HasDuplicate(rst_names),
       header |-> IF NamesAliasHeader(r) THEN rst_names ELSE r.csv.header ]

WithHeader(r, header) == [r EXCEPT !.csv.header = header]

Max(S) == CHOOSE x \in S : \A y \in S : y <= x

\* table_tc[name] of Recordset.type_codes, or False (0) when name is no key:
\* the dict is filled from the table description and then updated from the
\* manual columns, later entries replacing earlier ones.
TableTc(r, name) ==
  LET ms == {i \in 1..Len(r.add_columns) : r.add_columns[i].name = name}
      ts == {i \in 1..Len(r.table.description) : r.table.description[i].name = name}
  IN IF ms # {} THEN r.add_columns[Max(ms)].type_code
     ELSE IF ts # {} THEN r.table.description[Max(ts)].type_code
     ELSE NoTypeCode

\* Recordset.type_codes (it reads self.names).
Recordset_type_codes(r) ==
  LET n == Recordset_names(r)
  IN [ tc |-> [i \in 1..Len(n.names) |-> TableTc(r, n.names[i])],
       raised |-> n.raised,
       header |-> n.header ]

\* The type code itself used as the flag: truthy for every resolved code.
EscapeFlag_Truthy(type_code) == type_code # 0

\* The flag Recordset.escapes derives from one resolved type code.
EscapeFlag(type_code) == type_code \in ESCAPES

\* Recordset.escapes (it reads self.type_codes).  Each entry is kept as the
\* truth value _escape tests it for: the entries appended for the manual
\* columns are raw type codes, truthy iff they are not 0.
Recordset_escapes(r) ==
  LET t == Recordset_type_codes(r)
  IN [ esc |-> [i \in 1..Len(t.tc) |-> EscapeFlag(t.tc[i])]
               \o [i \in 1..Len(r.add_columns) |-> r.add_columns[i].type_code # 0],
       raised |-> t.raised,
       header |-> t.header ]

\* Recordset._escape.
Recordset_escape(data, is_escape) ==
  IF data = None \/ data = "" THEN "NULL"
  ELSE IF is_escape THEN "'" \o data \o "'"
  ELSE data

\* The values _convert_insert_sql_values appends to the row.
IsFixed(column) == column.option = "f"

FixedValues(r) ==
  LET fs == SelectSeq(r.add_columns, IsFixed)
  IN [i \in 1..Len(fs) |-> fs[i].value]

\* The list comprehension of _convert_insert_sql_values over
\* zip(row, self.names, self.escapes), which stops at the shortest of the
\* three and keeps the positions whose name is truthy.
ZipItems(row, names, esc) ==
  LET len == Min(Len(row), Min(Len(names), Len(esc)))
      kept == SelectSeq([j \in 1..len |-> j], LAMBDA j : Truthy(names[j]))
  IN [q \in 1..Len(kept) |-> Recordset_escape(row[kept[q]], esc[kept[q]])]

\* _convert_insert_sql_values once self.names returned n and self.escapes e.
ConvertEscaped(r, i, n, e) ==
  [ r |-> WithHeader(r, e.header),
    raised |-> e.raised,
    items |-> IF e.raised THEN << >> ELSE ZipItems(r.csv.rows[i], n.names, e.esc) ]

\* _convert_insert_sql_values once self.names returned n (or raised).
ConvertNamed(r, i, n) ==
  IF n.raised
    THEN [r |-> WithHeader(r, n.header), raised |-> TRUE, items |-> << >>]
    ELSE ConvertEscaped(WithHeader(r, n.header), i, n,
                        Recordset_escapes(WithHeader(r, n.header)))

\* Recordset._convert_insert_sql_values on row i of self._csv._rows: the row
\* is the list object the Csv holds, and the values are appended to it.
\* r: the recordset after the call; raised: names or escapes raised; items:
\* the rendered values.
Recordset_convert_insert_sql_values(r, i) ==
  ConvertNamed([r EXCEPT !.csv.rows[i] = @ \o FixedValues(r)], i,
               Recordset_names([r EXCEPT !.csv.rows[i] = @ \o FixedValues(r)]))

\* _chunk over an iterable of len items: the lists of the (1-based) positions
\* that share the key (position - 1) // n, in order.
chunk(len, n) ==
  LET keys == {(p - 1) \div n : p \in 1..len}
  IN [c \in 1..Cardinality(keys) |->
        LET first == (c - 1) * n + 1
            last == Min(c * n, len)
        IN [q \in 1..(last - first + 1) |-> first + q - 1]]

\* The list comprehension over one chunk: the rows are converted in order and
\* the first exception ends it.  (The fold over idxs is evaluated by halves:
\* the left half first, the right half from the recordset the left one left.)
RowResult(one, acc) ==
  [ r |-> one.r, raised |-> one.raised,
    groups |-> IF one.raised THEN acc ELSE Append(acc, one.items) ]

RECURSIVE ConvertRows(_, _, _)
RECURSIVE ConvertRest(_, _)
ConvertRows(r, idxs, acc) ==
  IF idxs = << >> THEN [r |-> r, raised |-> FALSE, groups |-> acc]
  ELSE IF Len(idxs) = 1
    THEN RowResult(Recordset_convert_insert_sql_values(r, idxs[1]), acc)
  ELSE ConvertRest(ConvertRows(r, SubSeq(idxs, 1, Len(idxs) \div 2), acc),
                   SubSeq(idxs, Len(idxs) \div 2 + 1, Len(idxs)))

ConvertRest(left, idxs) ==
  IF left.raised THEN left ELSE ConvertRows(left.r, idxs, left.groups)

\* Recordset.__init__.
Recordset_init(csv, table, mapping) ==
  LET r0 == [ set |-> TRUE, csv |-> csv, table |-> table, mapping |-> mapping,
              masks |-> << >>, add_columns |-> << >> ]
      n == Recordset_names(r0)
  IN IF MappingTruthy(mapping)
       THEN IF csv.header_is_none
              THEN [err |-> "TypeError", r |-> r0]
              ELSE [ err |-> "",
                     r |-> [r0 EXCEPT !.masks =
                              [i \in 1..Len(csv.header) |->
                                 csv.header[i] \in DOMAIN mapping.map]] ]
       ELSE IF n.raised
              THEN [err |-> "CsvImporterError: Duplicate column name", r |-> r0]
              ELSE [ err |-> "",
                     r |-> [WithHeader(r0, n.header) EXCEPT !.masks =
                              [i \in 1..Len(n.names) |-> TRUE]] ]

\* Recordset.add_column.
Recordset_add_column(r, column) ==
  [r EXCEPT !.add_columns = Append(@, column)]

(* ------------------------------ state --------------------------------- *)
VARIABLES
  imp_csv,     \* CsvImporter._csv: a reference to a Csv object (id 0: None)
  imp_table,   \* CsvImporter._table
  rst,         \* CsvImporter._rst, with the Csv object it holds
  con_log,     \* what the connection was asked to do, in order
  file_opens,  \* how many times a source file was opened
  err,         \* the exception the last call raised ("": it returned)
  call,        \* the last read_csv call's arguments
  pc,          \* where execute() / the consumer of build_insert_sql() stands
  run,         \* the generator of the last build_insert_sql() call
  qlog,        \* the results of the names/type_codes queries made in a row
  reads, adds, runs, queries   \* how many calls of each kind were made

vars == << imp_csv, imp_table, rst, con_log, file_opens, err, call, pc, run,
           qlog, reads, adds, runs, queries >>

NoStatement == [kind |-> "", table |-> "", cols |-> << >>, groups |-> << >>]

NoRun ==
  [ mode |-> "", multiple |-> 0, started |-> FALSE, ci |-> 0, state |-> "",
    cols |-> << >>, produced |-> << >>, log_start |-> 0, log_end |-> 0,
    csv_id |-> 0, before |-> NoRecordset ]

\* run.log_start, run.log_end: how many requests the connection had received
\* when the run began and when it ended; run.before: the recordset as the run
\* found it.

NoCall == [header |-> FALSE, mapping |-> NoMapping, file |-> "", table |-> "", skiprows |-> 0]

Init ==
  /\ imp_csv = CsvRef(NoCsv)
  /\ imp_table = NoTable
  /\ rst = NoRecordset
  /\ con_log = << >>
  /\ file_opens = 0
  /\ err = ""
  /\ call = NoCall
  /\ pc = "idle"
  /\ run = NoRun
  /\ qlog = << >>
  /\ reads = 0 /\ adds = 0 /\ runs = 0 /\ queries = 0

(* --------------------------- CsvImporter ------------------------------ *)
\* The guard testing the header flag the wrong way round.
ConfigGuard_Inverted(header, mapping) == header = TRUE /\ MappingTruthy(mapping)

\* _CsvImporterBase.read_csv: the configuration guard.
ConfigGuard(header, mapping) == header = FALSE /\ MappingTruthy(mapping)

\* CsvImporter.read_csv.
ReadCsv(file, table, header, mapping, skiprows) ==
  LET c == Csv_init(reads + 1, file, header, skiprows)
      t == Table_init(table)
      r == Recordset_init(c.obj, t, mapping)
  IN
  /\ pc = "idle"
  /\ reads' = reads + 1
  /\ call' = [header |-> header, mapping |-> mapping, file |-> file,
              table |-> table, skiprows |-> skiprows]
  /\ qlog' = << >>
  /\ IF ConfigGuard(header, mapping)
       THEN /\ err' = "CsvImporterError: Can not set mapping if header is not True"
            /\ UNCHANGED <<imp_csv, imp_table, rst, con_log, file_opens>>
     ELSE IF c.err # ""
       THEN /\ err' = c.err
            /\ file_opens' = file_opens + 1
            /\ UNCHANGED <<imp_csv, imp_table, rst, con_log>>
     ELSE /\ file_opens' = file_opens + 1
          /\ imp_csv' = CsvRef(c.obj)
          /\ con_log' = Append(con_log,
                               [op |-> "execute", sql |-> SelectStatement(table), ok |-> TRUE])
          /\ imp_table' = t
          /\ err' = r.err
          /\ rst' = IF r.err = "" THEN r.r ELSE rst
  /\ UNCHANGED <<pc, run, adds, runs, queries>>

\* CsvImporter.add_column.
AddColumn(column) ==
  /\ pc = "idle"
  /\ adds' = adds + 1
  /\ qlog' = << >>
  /\ IF rst.set
       THEN rst' = Recordset_add_column(rst, column) /\ err' = ""
       ELSE rst' = rst /\ err' = "AttributeError"
  /\ UNCHANGED <<imp_csv, imp_table, con_log, file_opens, call, pc, run, reads, runs, queries>>

\* A caller reading the names property of the importer's recordset.
NamesQuery ==
  LET n == Recordset_names(rst)
  IN /\ pc = "idle"
     /\ rst.set
     /\ queries' = queries + 1
     /\ rst' = WithHeader(rst, n.header)
     /\ qlog' = Append(qlog, [kind |-> "names", raised |-> n.raised,
                              result |-> IF n.raised THEN << >> ELSE n.names,
                              tc |-> << >>])
     /\ err' = IF n.raised THEN "CsvImporterError: Duplicate column name" ELSE ""
     /\ UNCHANGED <<imp_csv, imp_table, con_log, file_opens, call, pc, run, reads, adds, runs>>

\* A caller reading the type_codes property of the importer's recordset.
TypeCodesQuery ==
  LET t == Recordset_type_codes(rst)
  IN /\ pc = "idle"
     /\ rst.set
     /\ queries' = queries + 1
     /\ rst' = WithHeader(rst, t.header)
     /\ qlog' = Append(qlog, [kind |-> "type_codes", raised |-> t.raised,
                              result |-> << >>,
                              tc |-> IF t.raised THEN << >> ELSE t.tc])
     /\ err' = IF t.raised THEN "CsvImporterError: Duplicate column name" ELSE ""
     /\ UNCHANGED <<imp_csv, imp_table, con_log, file_opens, call, pc, run, reads, adds, runs>>

NewRun(mode, multiple) ==
  [ NoRun EXCEPT !.mode = mode, !.multiple = multiple, !.state = "running",
                 !.log_start = Len(con_log), !.csv_id = rst.csv.id,
                 !.before = rst ]

\* CsvImporter.execute up to the first next() of the generator.
ExecuteStart ==
  /\ pc = "idle"
  /\ runs' = runs + 1
  /\ qlog' = << >>
  /\ IF rst.set
       THEN /\ run' = NewRun("execute", MULTIPLE_INSERT_CHUNK_SIZE)
            /\ pc' = "next"
            /\ err' = ""
       ELSE /\ err' = "AttributeError"
            /\ UNCHANGED <<run, pc>>
  /\ UNCHANGED <<imp_csv, imp_table, rst, con_log, file_opens, call, reads, adds, queries>>

\* One next() of the generator Recordset.build_insert_sql returns.  On the
\* first, the column clause is built from self.names.  Then the next chunk of
\* rows is converted and the statement is yielded, or the generator ends.
\* r: the recordset after the call; g: the generator after it, its state
\* "running" (a statement was yielded), "done" (StopIteration) or "raised".
InsertColumns(names) == SelectSeq(names, Truthy)

\* The body of the for loop, once the chunk's rows were converted.
Generator_yield(g, res) ==
  [ r |-> res.r,
    g |-> IF res.raised THEN [g EXCEPT !.state = "raised"]
          ELSE [g EXCEPT !.ci = @ + 1,
                         !.produced = Append(@, [kind |-> "INSERT",
                                                 table |-> res.r.table.name,
                                                 cols |-> g.cols,
                                                 groups |-> res.groups])] ]

\* The for loop over _chunk(self._csv.reader(), multiple), at its next chunk.
Generator_resume(r, g) ==
  LET chunks == chunk(Len(r.csv.rows), g.multiple)
  IN IF g.ci >= Len(chunks) THEN [r |-> r, g |-> [g EXCEPT !.state = "done"]]
     ELSE Generator_yield(g, ConvertRows(r, chunks[g.ci + 1], << >>))

\* The lines before the loop, once self.names returned n (or raised).
Generator_begin(r, g, n) ==
  IF n.raised
    THEN [r |-> WithHeader(r, n.header),
          g |-> [g EXCEPT !.started = TRUE, !.state = "raised"]]
    ELSE Generator_resume(WithHeader(r, n.header),
                          [g EXCEPT !.started = TRUE, !.cols = InsertColumns(n.names)])

Generator_next(r, g) ==
  IF g.started THEN Generator_resume(r, g)
  ELSE Generator_begin(r, g, Recordset_names(r))

GeneratorErr(g) ==
  IF g.state = "raised" THEN "CsvImporterError: Duplicate column name" ELSE ""

\* A caller starts consuming rst.build_insert_sql(multiple), which it reads
\* to its end (for sql in rst.build_insert_sql(multiple): ...).
BuildInsertSql(multiple) ==
  /\ pc = "idle"
  /\ rst.set
  /\ runs' = runs + 1
  /\ qlog' = << >>
  /\ run' = NewRun("build", multiple)
  /\ pc' = "next"
  /\ err' = ""
  /\ UNCHANGED <<imp_csv, imp_table, rst, con_log, file_opens, call, reads, adds, queries>>

\* The for loop (of execute(), or of the caller of build_insert_sql) asks the
\* generator for the next statement.
GenNext ==
  /\ pc = "next"
  /\ \E out \in {Generator_next(rst, run)} :
     /\ rst' = out.r
     /\ run' = IF out.g.state = "running" THEN out.g
               ELSE [out.g EXCEPT !.log_end = Len(con_log)]
     /\ err' = GeneratorErr(out.g)
     /\ pc' = IF out.g.state # "running" THEN "idle"
              ELSE IF run.mode = "execute" THEN "execute" ELSE "next"
     /\ UNCHANGED <<imp_csv, imp_table, con_log, file_opens, call, qlog, reads, adds, runs, queries>>

\* execute() without the commit after each statement.
CursorExecute_NoCommit ==
  /\ pc = "execute"
  /\ con_log' = Append(con_log, [op |-> "execute", sql |-> run.produced[Len(run.produced)],
                                 ok |-> TRUE])
  /\ pc' = "next"
  /\ UNCHANGED <<imp_csv, imp_table, rst, file_opens, err, call, run, qlog, reads, adds, runs, queries>>

\* execute(): cursor.execute(sql) returns.
CursorExecute ==
  /\ pc = "execute"
  /\ con_log' = Append(con_log, [op |-> "execute", sql |-> run.produced[Len(run.produced)],
                                 ok |-> TRUE])
  /\ pc' = "commit"
  /\ UNCHANGED <<imp_csv, imp_table, rst, file_opens, err, call, run, qlog, reads, adds, runs, queries>>

\* execute() catching the exception of cursor.execute(sql) and going on with
\* the next statement.
CursorExecuteRejected_Swallowed ==
  /\ pc = "execute"
  /\ con_log' = Append(con_log, [op |-> "execute", sql |-> run.produced[Len(run.produced)],
                                 ok |-> FALSE])
  /\ pc' = "next"
  /\ UNCHANGED <<imp_csv, imp_table, rst, file_opens, err, call, run, qlog, reads, adds, runs, queries>>

\* execute(): cursor.execute(sql) raises, which leaves execute().
CursorExecuteRejected ==
  /\ pc = "execute"
  /\ con_log' = Append(con_log, [op |-> "execute", sql |-> run.produced[Len(run.produced)],
                                 ok |-> FALSE])
  /\ run' = [run EXCEPT !.state = "rejected", !.log_end = Len(con_log) + 1]
  /\ err' = "DatabaseError"
  /\ pc' = "idle"
  /\ UNCHANGED <<imp_csv, imp_table, rst, file_opens, call, qlog, reads, adds, runs, queries>>

\* execute(): self._con.commit(), then the loop asks for the next statement.
Commit ==
  /\ pc = "commit"
  /\ con_log' = Append(con_log, [op |-> "commit", sql |-> NoStatement, ok |-> TRUE])
  /\ pc' = "next"
  /\ UNCHANGED <<imp_csv, imp_table, rst, file_opens, err, call, run, qlog, reads, adds, runs, queries>>

ReadCsvAny ==
  \E a \in ReadCsvArgs : ReadCsv(a.file, a.table, a.header, a.mapping, a.skiprows)

AddColumnAny == \E column \in AddColumnArgs : AddColumn(column)

BuildInsertSqlAny == \E multiple \in ChunkSizes : BuildInsertSql(multiple)

\* The importer in use: a configuration, manual columns, the properties read
\* from outside, and statements generated directly or executed against the
\* connection.
Next ==
  \/ reads < MaxReads /\ ReadCsvAny
  \/ adds < MaxAdds /\ AddColumnAny
  \/ runs < MaxRuns /\ ExecuteStart
  \/ runs < MaxRuns /\ BuildInsertSqlAny
  \/ queries < MaxQueries /\ NamesQuery
  \/ queries < MaxQueries /\ TypeCodesQuery
  \/ GenNext
  \/ CursorExecute
  \/ CursorExecuteRejected
  \/ Commit

Spec == Init /\ [][Next]_vars

\* The reconciler queried from outside: configuration, manual columns and
\* the names and type_codes properties.
NextNames ==
  \/ reads < MaxReads /\ ReadCsvAny
  \/ adds < MaxAdds /\ AddColumnAny
  \/ queries < MaxNameQueries /\ NamesQuery
  \/ queries < MaxNameQueries /\ TypeCodesQuery

SpecNames == Init /\ [][NextNames]_vars

\* The importer configured again and again.
NextConfig ==
  \/ reads < MaxConfigs /\ ReadCsvAny
  \/ adds < MaxAdds /\ AddColumnAny

SpecConfig == Init /\ [][NextConfig]_vars

(* ------------------- what the claims are stated in -------------------- *)
DuplicateError == "CsvImporterError: Duplicate column name"
ConfigurationError == "CsvImporterError: Can not set mapping if header is not True"

\* The Csv object as its constructor left it: the header and the rows read.
Orig(c) == Csv_init(c.id, c.file, c.has_header, c.skiprows).obj

\* The source-derived part of the names, from what was configured.
ExpectedSource(r) ==
  LET h == Orig(r.csv).header
  IN IF MappingTruthy(r.mapping)
       THEN [i \in 1..Len(h) |->
               IF h[i] \in DOMAIN r.mapping.map THEN r.mapping.map[h[i]] ELSE Absent]
     ELSE IF r.csv.has_header THEN h
     ELSE [i \in 1..Len(r.table.description) |-> r.table.description[i].name]

ManualNames(r) == [i \in 1..Len(r.add_columns) |-> r.add_columns[i].name]

ExpectedNames(r) == ExpectedSource(r) \o ManualNames(r)

Distinct(seq) == \A i, j \in 1..Len(seq) : i # j => seq[i] # seq[j]

\* The non-absent names hold a duplicate.
HoldsDuplicate(names) == ~Distinct(SelectSeq(names, Truthy))

\* The positions of the non-absent names, in order.
KeptPositions(names) ==
  SelectSeq([j \in 1..Len(names) |-> j], LAMBDA j : Truthy(names[j]))

\* The type code a column resolves to: a manual column's own, else the
\* target schema's, else none.
DeclaredTypeCode(r, name) ==
  IF \E i \in 1..Len(r.add_columns) : r.add_columns[i].name = name
    THEN (CHOOSE c \in {r.add_columns[i] : i \in 1..Len(r.add_columns)} :
            c.name = name).type_code
  ELSE IF \E i \in 1..Len(r.table.description) : r.table.description[i].name = name
    THEN (CHOOSE f \in {r.table.description[i] : i \in 1..Len(r.table.description)} :
            f.name = name).type_code
  ELSE NoTypeCode

ExpectedRender(value, type_code) ==
  IF value = None \/ value = "" THEN "NULL"
  ELSE IF type_code \in {TYPE_CODE_CHAR, TYPE_CODE_DATETIME} THEN "'" \o value \o "'"
  ELSE value

Ceil(n, k) == (n + k - 1) \div k

\* The requests the connection received during the last run.
RunLog ==
  SubSeq(con_log, run.log_start + 1,
         IF run.state = "running" THEN Len(con_log) ELSE run.log_end)

\* The last run is a run over the recordset the importer holds now.
RunIsCurrent == run.mode # "" /\ rst.set /\ rst.csv.id = run.csv_id

\* The (1-based) source row that value group g of statement s renders.
RowOf(s, g) == (s - 1) * run.multiple + g

(* ------------------------------- C1 ----------------------------------- *)
\* C1: two queries of names (or of type_codes) made in a row, with no
\* add_column in between, return the same sequence, and the second does not
\* raise when the first returned.
C1_Idempotent ==
  \A i \in 1..(Len(qlog) - 1) :
     (qlog[i].kind = qlog[i + 1].kind /\ ~qlog[i].raised)
       => /\ ~qlog[i + 1].raised
          /\ qlog[i + 1].result = qlog[i].result
          /\ qlog[i + 1].tc = qlog[i].tc

(* ------------------------------- C2 ----------------------------------- *)
\* C2: when the names configured hold no duplicate, a generation read to its
\* end yields ceil(n/k) statements for n rows and chunk size k, and statement
\* s holds the value groups of rows (s-1)*k+1 .. min(s*k, n) in source
\* order.
C2_Chunking ==
  ( /\ run.state \in {"done", "raised"}
    /\ ~HoldsDuplicate(ExpectedNames(run.before)) )
  => LET n == Len(run.before.csv.rows)
         k == run.multiple
     IN /\ run.state = "done"
        /\ Len(run.produced) = Ceil(n, k)
        /\ \A s \in 1..Len(run.produced) :
             /\ Len(run.produced[s].groups) = Min(k, n - (s - 1) * k)
             /\ \A g \in 1..Len(run.produced[s].groups) :
                  run.produced[s].groups[g] =
                    Recordset_convert_insert_sql_values(run.before, RowOf(s, g)).items

(* ------------------------------- C3 ----------------------------------- *)
\* C3: during execute() the connection sees execute(s1), commit,
\* execute(s2), commit, ... with the statements in the order they were
\* generated, and whenever the loop is between two statements or has ended
\* without a failure there are as many commits as statements executed.
C3_Alternation ==
  run.mode = "execute" =>
    /\ \A j \in 1..Len(RunLog) :
         IF j % 2 = 1
           THEN /\ RunLog[j].op = "execute"
                /\ (j + 1) \div 2 <= Len(run.produced)
                /\ RunLog[j].sql = run.produced[(j + 1) \div 2]
           ELSE RunLog[j].op = "commit"
    /\ (run.state = "done" \/ (run.state = "running" /\ pc = "next"))
         => Len(RunLog) = 2 * Len(run.produced)
    /\ pc = "execute" => Len(RunLog) = 2 * Len(run.produced) - 2
    /\ pc = "commit" => Len(RunLog) = 2 * Len(run.produced) - 1

C3_Witness ==
  /\ run.mode = "execute"
  /\ run.state = "done"
  /\ Len(run.produced) >= 3
  /\ Len(RunLog) = 6

(* ------------------------------- C4 ----------------------------------- *)
\* C4: when the connection rejects statement i of execute(), execute() is
\* left at once: statements 1..i-1 were executed and committed, statement i
\* is not committed, none was generated after it, the rows of the later
\* chunks were not touched, and the connection receives nothing more.
C4_AbortOnReject ==
  \A j \in 1..Len(RunLog) :
     (run.mode = "execute" /\ RunLog[j].op = "execute" /\ ~RunLog[j].ok)
       => /\ j = Len(RunLog)
          /\ run.state = "rejected"
          /\ run.log_end = run.log_start + j
          /\ j = 2 * Len(run.produced) - 1
          /\ RunLog[j].sql = run.produced[Len(run.produced)]
          /\ \A q \in 1..(j - 1) :
               /\ RunLog[q].ok
               /\ RunLog[q].op = (IF q % 2 = 1 THEN "execute" ELSE "commit")
               /\ q % 2 = 1 => RunLog[q].sql = run.produced[(q + 1) \div 2]
          /\ run.ci = Len(run.produced)
          /\ RunIsCurrent =>
               \A i \in (run.ci * run.multiple + 1)..Len(rst.csv.rows) :
                  rst.csv.rows[i] = run.before.csv.rows[i]

C4_Witness ==
  /\ run.mode = "execute"
  /\ run.state = "rejected"
  /\ Len(run.produced) = 2
  /\ Len(run.before.csv.rows) > 2 * run.multiple
  /\ Len(RunLog) = 3
  /\ pc = "idle"
  /\ err = "DatabaseError"

(* ------------------------------- C5 ----------------------------------- *)
\* C5: a read_csv call with header = False and a non-empty mapping raises the
\* configuration error, opens no file, sends the connection nothing and
\* leaves the importer's source, table and recordset as they were.
C5_ConfigGuard ==
  [][ (reads' = reads + 1 /\ ~call'.header /\ MappingTruthy(call'.mapping))
        => /\ err' = ConfigurationError
           /\ file_opens' = file_opens
           /\ con_log' = con_log
           /\ imp_csv' = imp_csv
           /\ imp_table' = imp_table
           /\ rst' = rst ]_vars

C5_Witness ==
  /\ reads = 2
  /\ ~call.header
  /\ MappingTruthy(call.mapping)
  /\ err = ConfigurationError
  /\ rst.set
  /\ imp_csv.id = 1
  /\ file_opens = 1
  /\ Len(con_log) = 1

(* ------------------------------- C6 ----------------------------------- *)
\* C6: whenever names returns, the result is the source-derived part (mapped
\* name or the absent marker per header entry with a mapping, the header
\* with a header and no mapping, the schema's names otherwise) followed by
\* the manual columns' names, each once, in the order they were added.
C6_NamesShape ==
  \A i \in 1..Len(qlog) :
     (qlog[i].kind = "names" /\ ~qlog[i].raised)
       => qlog[i].result = ExpectedNames(rst)

(* ------------------------------- C7 ----------------------------------- *)
\* C7: a duplicate among the non-absent names is raised before any INSERT:
\* a run over names that hold a duplicate submits and yields nothing and ends
\* with the duplicate-column error, a run that ends with that error has
\* submitted and yielded nothing, and every statement yielded or submitted
\* lists pairwise distinct columns.
C7_DuplicateFailsFast ==
  /\ (run.mode # "" /\ HoldsDuplicate(ExpectedNames(run.before)))
       => /\ run.produced = << >>
          /\ RunLog = << >>
          /\ run.started => run.state = "raised"
  /\ run.state = "raised" => (run.produced = << >> /\ RunLog = << >>)
  /\ \A s \in 1..Len(run.produced) : Distinct(run.produced[s].cols)
  /\ \A j \in 1..Len(con_log) :
       con_log[j].sql.kind = "INSERT" => Distinct(con_log[j].sql.cols)

C7_Witness ==
  /\ run.mode = "execute"
  /\ run.state = "raised"
  /\ err = DuplicateError
  /\ HoldsDuplicate(ExpectedNames(run.before))
  /\ Len(run.before.csv.rows) > 0
  /\ Len(run.before.add_columns) = 2
  /\ RunLog = << >>

(* ------------------------------- C8 ----------------------------------- *)
\* C8: every rendered value of a non-absent column is NULL when the value at
\* the column's position in the row is None or the empty string, else the
\* value in single quotes iff the column's type code (a manual column's own,
\* else the schema's) is CHAR or DATETIME, else the value as it is.
C8_Quoting ==
  RunIsCurrent =>
    LET names == ExpectedNames(run.before)
        kept == KeptPositions(names)
    IN \A s \in 1..Len(run.produced) :
         /\ run.produced[s].cols = [q \in 1..Len(kept) |-> names[kept[q]]]
         /\ \A g \in 1..Len(run.produced[s].groups) :
              LET items == run.produced[s].groups[g]
                  row == rst.csv.rows[RowOf(s, g)]
              IN /\ Len(items) <= Len(kept)
                 /\ \A q \in 1..Len(items) :
                      /\ kept[q] <= Len(row)
                      /\ items[q] =
                           ExpectedRender(row[kept[q]],
                                          DeclaredTypeCode(run.before, names[kept[q]]))

C8_Witness ==
  /\ RunIsCurrent
  /\ run.state = "done"
  /\ \E s \in 1..Len(run.produced) :
       /\ run.produced[s].cols = <<"x", "b", "n">>
       /\ \E g \in 1..Len(run.produced[s].groups) :
            run.produced[s].groups[g] = <<"NULL", "v", "'w'">>
       /\ \E g \in 1..Len(run.produced[s].groups) :
            run.produced[s].groups[g] = <<"'k1'", "v", "'w'">>

(* ------------------------------- C9 ----------------------------------- *)
\* C9: every value group renders, at each manual column's position, that
\* manual column's own value, and at each source-derived position the value
\* read for that row and column; and generating statements leaves the rows
\* the source reader holds as they were read.
C9_ConstantsAndRows ==
  RunIsCurrent =>
    LET names == ExpectedNames(run.before)
        kept == KeptPositions(names)
        nsrc == Len(ExpectedSource(run.before))
        read == Orig(rst.csv).rows
    IN /\ rst.csv.rows = read
       /\ \A s \in 1..Len(run.produced) :
            \A g \in 1..Len(run.produced[s].groups) :
               \A q \in 1..Len(run.produced[s].groups[g]) :
                  run.produced[s].groups[g][q] =
                    ExpectedRender(
                      IF kept[q] <= nsrc
                        THEN read[RowOf(s, g)][kept[q]]
                        ELSE run.before.add_columns[kept[q] - nsrc].value,
                      DeclaredTypeCode(run.before, names[kept[q]]))

(* ------------------------------- C10 ---------------------------------- *)
\* C10: when every source row has one field per source-derived column, every
\* value group of every statement holds as many values as the statement's
\* column list names columns.
C10_GroupWidth ==
  RunIsCurrent =>
    \A s \in 1..Len(run.produced) :
       \A g \in 1..Len(run.produced[s].groups) :
          Len(Orig(rst.csv).rows[RowOf(s, g)]) = Len(ExpectedSource(run.before))
            => Len(run.produced[s].groups[g]) = Len(run.produced[s].cols)

====
